---- MODULE Spec2Model ----
(***************************************************************************)
(* A model of the modernization toolset (rahibk/jboss-modernization):      *)
(* the LLM response handling of the architect command and the migration    *)
(* analyzer, the cloud-readiness analyzer, the OWASP report parser and the *)
(* three command handlers.                                                  *)
(*                                                                         *)
(* Scores are integers in twentieths (a score of 6.5 is 130), so that the  *)
(* mean of a half-valued static score and a tenth-valued LLM score and its *)
(* rounding to one decimal place are exact.                                *)
(***************************************************************************)
EXTENDS Integers, Sequences, FiniteSets, TLC

VARIABLES
    aFn, aOutcome, aResult,            \* one call of an LLM analysis function
    cContent, cProvider, cLlm, cResult,\* one call of CloudReadinessAnalyzer.assessFile
    oReport, oResult,                  \* one call of parseOwaspReport
    cmd, pathExists, hasKey, outputOpt,\* a command invocation and its arguments
    files, pc, idx, assessments,       \* the handler's position and its per-file loop
    warnings, written, llmRequests,    \* what the handler has done so far
    archAnalysis, overallScore,        \* the architect result, the overall readiness
    exitCode,                          \* the process exit code (-1 while running)
    inFlight, started,                 \* LLM requests awaiting their response, the files
                                       \* whose assessment has been started, in order
    sEnv, sResult,                     \* one call of runDependencyCheck
    sTrace,                            \* the commands it ran and the reports it parsed, in order
    fsTree, fsExtensions, fsRecursive, \* one call of FileScanner.scanDirectory
    fsDenied,                          \* and the file system call that is refused during it
    fsResult,
    now, saving, disk, saved,          \* the clock, the running call of saveAnalysisResults,
                                       \* the files written, the calls that returned
    pkPc, pkPatterns, pkTree, pkTemp, pkResult, \* one call of packageCodebase
    scIssues, scStrengths, scResult, \* one call of calculateStaticScore
    hCmd, hPathExists, hHasKey, hPc, hError, hEffects, consoleLog, terminalOutput, stdout, \* a handler run: its capture of console.log and its effects
    rOutput, rSection  \* the Raw Terminal Output section of one report

archVars  == <<aFn, aOutcome, aResult>>
cloudVars == <<cContent, cProvider, cLlm, cResult>>
owaspVars == <<oReport, oResult>>
cmdVars   == <<cmd, pathExists, hasKey, outputOpt, files, pc, idx, assessments,
               warnings, written, llmRequests, archAnalysis, overallScore, exitCode,
               inFlight, started>>
scanVars  == <<sEnv, sResult, sTrace>>
saveVars  == <<now, saving, disk, saved>>
fsVars    == <<fsTree, fsExtensions, fsRecursive, fsDenied, fsResult>>
packVars  == <<pkPc, pkPatterns, pkTree, pkTemp, pkResult>>
scoreVars == <<scIssues, scStrengths, scResult>>
handlerVars == <<hCmd, hPathExists, hHasKey, hPc, hError, hEffects, consoleLog, terminalOutput, stdout>>
renderVars == <<rOutput, rSection>>
extVars   == <<scanVars, saveVars, fsVars, packVars, scoreVars, handlerVars, renderVars>>
vars      == <<archVars, cloudVars, owaspVars, cmdVars, extVars>>

Idle == "idle"

\* The value of a result variable before the call has returned.
NoResult == [threw |-> FALSE, value |-> [kind |-> "none", text |-> <<>>], warned |-> FALSE]
NoOutcome == [kind |-> Idle, isNull |-> FALSE, content |-> <<>>]

NoCloudOutcome ==
    [kind |-> Idle, isNull |-> FALSE, content |-> <<>>,
     value |-> [readinessScore |-> [present |-> FALSE, n |-> 0],
                issues |-> [present |-> FALSE, isArray |-> FALSE, items |-> <<>>],
                strengths |-> [present |-> FALSE, isArray |-> FALSE, items |-> <<>>],
                recommendations |-> [present |-> FALSE, isArray |-> FALSE, items |-> <<>>]]]
NoCloudResult ==
    [threw |-> FALSE, warned |-> FALSE,
     value |-> [readinessScore |-> -1, issues |-> <<>>, strengths |-> <<>>, recommendations |-> <<>>]]

ArchIdle  == aFn = Idle /\ aOutcome = NoOutcome /\ aResult = NoResult
CloudIdle == cContent = {} /\ cProvider = Idle /\ cLlm = NoCloudOutcome /\ cResult = NoCloudResult
NoReport == [kind |-> Idle, deps |-> <<>>]
NoOwaspResult ==
    [threw |-> FALSE, called |-> FALSE,
     value |-> [scanSuccess |-> FALSE, dependencies |-> 0, vulnerableDependencies |-> 0,
                vulnerabilities |-> <<>>]]
OwaspIdle == oReport = NoReport /\ oResult = NoOwaspResult
NoScanEnv == [project |-> Idle, mkdir |-> FALSE, scanner |-> FALSE, docker |-> FALSE,
              first |-> NoReport, second |-> NoReport]
ScanIdle  == sEnv = NoScanEnv /\ sResult = NoOwaspResult /\ sTrace = <<>>
NoFile    == [analysisType |-> Idle, path |-> <<>>, timestamp |-> <<>>, ext |-> Idle]
NoMarkdown == [analysisType |-> Idle, project |-> <<>>, date |-> <<>>, summary |-> Idle]
NoSave    == [pc |-> Idle, analysisType |-> Idle, projectPath |-> <<>>, timestamp |-> <<>>,
              jsonFileName |-> NoFile, markdownFileName |-> NoFile,
              markdownContent |-> NoMarkdown, writes |-> <<>>]
SaveIdle  == now = 0 /\ saving = NoSave /\ disk = {} /\ saved = <<>>
NoScan    == [called |-> FALSE, threw |-> FALSE, files |-> <<>>, warnings |-> {}]
NoDenial  == [op |-> "none", path |-> <<>>]
FsIdle    == /\ fsTree = {} /\ fsExtensions = {} /\ fsRecursive = FALSE
             /\ fsDenied = NoDenial /\ fsResult = NoScan
NoPackTree == [listable |-> FALSE, entries |-> <<>>]
NoPackResult == [called |-> FALSE, threw |-> FALSE, source |-> Idle, body |-> <<>>]
PackIdle  == /\ pkPc = Idle /\ pkPatterns = <<>> /\ pkTree = NoPackTree /\ pkTemp = {}
             /\ pkResult = NoPackResult
NoStaticScore == [called |-> FALSE, score |-> 0]
ScoreIdle == scIssues = <<>> /\ scStrengths = <<>> /\ scResult = NoStaticScore
HandlerIdle == /\ hCmd = Idle /\ hPathExists = FALSE /\ hHasKey = FALSE /\ hPc = Idle
               /\ hError = "none" /\ hEffects = {} /\ consoleLog = "original"
               /\ terminalOutput = <<>> /\ stdout = <<>>
NoSection == [rendered |-> FALSE, text |-> <<>>]
RenderIdle == rOutput = <<>> /\ rSection = NoSection
ExtIdle   == ScanIdle /\ SaveIdle /\ FsIdle /\ PackIdle /\ ScoreIdle /\ HandlerIdle /\ RenderIdle
CmdIdle   == /\ cmd = Idle /\ pathExists = FALSE /\ hasKey = FALSE /\ outputOpt = FALSE
             /\ files = <<>> /\ pc = Idle /\ idx = 0 /\ assessments = <<>>
             /\ warnings = <<>> /\ written = {} /\ llmRequests = 0
             /\ archAnalysis = Idle /\ overallScore = 0 /\ exitCode = -1
             /\ inFlight = 0 /\ started = <<>>

(***************************************************************************)
(* LLM response text.  A response is a sequence of tokens: the two braces, *)
(* "k" for a quoted key with its colon, "1" for a number literal, "n" for  *)
(* the literal null and "x" for a character of prose.                      *)
(***************************************************************************)
MaxLen == 4

Tokens == {"{", "}", "k", "1", "n", "x"}

RECURSIVE SeqsUpTo(_)
SeqsUpTo(n) ==
    IF n = 0 THEN {<<>>}
    ELSE LET shorter == SeqsUpTo(n - 1)
         IN  shorter \cup {Append(s, t) : s \in {q \in shorter : Len(q) = n - 1}, t \in Tokens}

Texts == SeqsUpTo(MaxLen)

\* JSON.parse accepts a text iff it is a JSON value: a number, null, or an
\* object with no member or one member whose value is a JSON value.
RECURSIVE IsJsonValue(_)
IsJsonValue(s) ==
    \/ s = <<"1">>
    \/ s = <<"n">>
    \/ /\ Len(s) >= 2
       /\ s[1] = "{"
       /\ s[Len(s)] = "}"
       /\ \/ Len(s) = 2
          \/ /\ Len(s) >= 4
             /\ s[2] = "k"
             /\ IsJsonValue(SubSeq(s, 3, Len(s) - 1))

\* The value JSON.parse returns for a text it accepts.
JsonParse(s) ==
    IF s = <<"1">> THEN [kind |-> "number", text |-> s]
    ELSE IF s = <<"n">> THEN [kind |-> "null", text |-> s]
    ELSE [kind |-> "object", text |-> s]

\* response.match(/\{[\s\S]*\}/): greedy, from the first "{" to the last "}"
\* after it; <<>> paired with found = FALSE when there is no match.
RegexMatch(s) ==
    LET opens  == {i \in 1..Len(s) : s[i] = "{"}
        first  == CHOOSE i \in opens : \A j \in opens : i <= j
        closes == {i \in 1..Len(s) : s[i] = "}" /\ i > first}
        last   == CHOOSE i \in closes : \A j \in closes : j <= i
    IN  IF opens = {} \/ closes = {}
        THEN [found |-> FALSE, text |-> <<>>]
        ELSE [found |-> TRUE, text |-> SubSeq(s, first, last)]

\* jsonMatch ? jsonMatch[0] : response
JsonContent(s) ==
    LET m == RegexMatch(s) IN IF m.found THEN m.text ELSE s

(***************************************************************************)
(* analyzeArchitecture and MigrationAnalyzer.generateLlmMigrationAnalysis. *)
(* An LLM outcome is a failed request or a response whose content is a     *)
(* text, or null (a completion without message content).                   *)
(***************************************************************************)
LlmOutcomes ==
    {[kind |-> "fails", isNull |-> FALSE, content |-> <<>>],
     [kind |-> "response", isNull |-> TRUE, content |-> <<>>]}
    \cup {[kind |-> "response", isNull |-> FALSE, content |-> t] : t \in Texts}

Returned(v, w) == [threw |-> FALSE, value |-> v, warned |-> w]
Thrown         == [threw |-> TRUE, value |-> [kind |-> "exception", text |-> <<>>], warned |-> FALSE]

\* The statements inside the try block: sendRequest, match, JSON.parse.
LlmJsonTry(o) ==
    IF o.kind = "fails" THEN Thrown
    ELSE IF o.isNull THEN Thrown
    ELSE IF IsJsonValue(JsonContent(o.content))
         THEN Returned(JsonParse(JsonContent(o.content)), FALSE)
         ELSE Thrown

createFallbackArchitecturalAnalysis == [kind |-> "fallback", text |-> <<"architect">>]
createFallbackMigrationAnalysis     == [kind |-> "fallback", text |-> <<"migration">>]

analyzeArchitectureNoCatch(o) == LlmJsonTry(o)

analyzeArchitecture(o) ==
    LET r == LlmJsonTry(o)
    IN  IF r.threw THEN Returned(createFallbackArchitecturalAnalysis, TRUE) ELSE r

generateLlmMigrationAnalysis(o) ==
    LET r == LlmJsonTry(o)
    IN  IF r.threw THEN Returned(createFallbackMigrationAnalysis, TRUE) ELSE r

AnalyzeArchitectureCall ==
    /\ aFn = "analyzeArchitecture" /\ aResult = NoResult
    /\ aResult' = analyzeArchitecture(aOutcome)
    /\ UNCHANGED <<aFn, aOutcome, cloudVars, owaspVars, cmdVars, extVars>>

GenerateLlmMigrationAnalysisCall ==
    /\ aFn = "generateLlmMigrationAnalysis" /\ aResult = NoResult
    /\ aResult' = generateLlmMigrationAnalysis(aOutcome)
    /\ UNCHANGED <<aFn, aOutcome, cloudVars, owaspVars, cmdVars, extVars>>

InitArch ==
    /\ aFn \in {"analyzeArchitecture", "generateLlmMigrationAnalysis"}
    /\ aOutcome \in LlmOutcomes
    /\ aResult = NoResult
    /\ CloudIdle /\ OwaspIdle /\ CmdIdle /\ ExtIdle

NextArch == AnalyzeArchitectureCall \/ GenerateLlmMigrationAnalysisCall

SpecArch == InitArch /\ [][NextArch]_vars

FallbackOf(fn) ==
    IF fn = "analyzeArchitecture" THEN createFallbackArchitecturalAnalysis
    ELSE createFallbackMigrationAnalysis

\* A response is malformed when neither the whole text nor any part of it
\* that runs from a "{" to a "}" is JSON.
Malformed(o) ==
    \/ o.kind = "response" /\ o.isNull
    \/ /\ o.kind = "response" /\ ~o.isNull
       /\ ~IsJsonValue(o.content)
       /\ \A i \in 1..Len(o.content) : \A j \in i..Len(o.content) :
            (o.content[i] = "{" /\ o.content[j] = "}")
                => ~IsJsonValue(SubSeq(o.content, i, j))

\* C1: neither LLM analysis function throws, whatever the LLM outcome, and a
\* failed request or a malformed response yields the hand-written default.
C1_FallbackNeverThrows ==
    aResult # NoResult =>
        /\ ~aResult.threw
        /\ (aOutcome.kind = "fails" \/ Malformed(aOutcome)) => aResult.value = FallbackOf(aFn)

\* A malformed response with unbalanced braces has been handled.
C1_Witness ==
    /\ aResult # NoResult
    /\ aOutcome.kind = "response"
    /\ aOutcome.content = <<"{", "k", "x", "}">>
    /\ aResult.value = FallbackOf(aFn)

(***************************************************************************)
(* CloudReadinessAnalyzer.  A file content is the set of the analyzer's    *)
(* regular expressions that match it.                                      *)
(***************************************************************************)
MaxPatterns == 2
MaxLlmIssues == 1

Patterns ==
    {"env", "config", "secret", "structlog", "consolelog", "metrics", "https",
     "http", "localhost", "validation", "session", "stateless", "cache", "async",
     "health", "sigterm", "fs", "pool", "clouddb", "migration"}

Contents == {c \in SUBSET Patterns : Cardinality(c) <= MaxPatterns}

Providers == {"atlas", "aws"}

Issue(c, sv, d, r) == [category |-> c, severity |-> sv, description |-> d, recommendation |-> r]

When(cond, x) == IF cond THEN <<x>> ELSE <<>>

checkConfigurationManagement(content) ==
    [issues |->
        When("env" \notin content /\ "config" \in content,
             Issue("Configuration", "Medium", "Hardcoded configuration detected",
                   "Use environment variables or external configuration files"))
        \o When("secret" \in content,
                Issue("Security", "High", "Hardcoded secrets detected",
                      "Use environment variables or secret management services")),
     strengths |-> When("env" \in content, "Uses environment variables for configuration")]

checkLoggingPatterns(content) ==
    [issues |->
        When("structlog" \notin content /\ "consolelog" \in content,
             Issue("Observability", "Medium", "Basic console logging detected",
                   "Implement structured logging with log levels and JSON format")),
     strengths |->
        When("structlog" \in content, "Uses structured logging patterns")
        \o When("metrics" \in content, "Includes monitoring/metrics integration")]

checkSecurityPatterns(content) ==
    [issues |->
        When("http" \in content /\ "localhost" \notin content,
             Issue("Security", "Medium", "HTTP protocol used for external communications",
                   "Use HTTPS for all external API calls")),
     strengths |->
        When("https" \in content, "Uses HTTPS for external communications")
        \o When("validation" \in content, "Includes input validation patterns")]

checkScalabilityPatterns(content) ==
    [issues |->
        When("session" \in content /\ "stateless" \notin content,
             Issue("Scalability", "Medium", "Potential stateful session management",
                   "Use stateless authentication (JWT) and external session storage")),
     strengths |->
        When("cache" \in content, "Includes caching mechanisms")
        \o When("async" \in content, "Uses asynchronous programming patterns")]

checkContainerReadiness(content) ==
    [issues |->
        When("fs" \in content,
             Issue("Container", "Low", "File system operations detected",
                   "Use external storage services for persistent data")),
     strengths |->
        When("health" \in content, "Includes health check endpoints")
        \o When("sigterm" \in content, "Handles graceful shutdown signals")]

checkDatabasePatterns(content) ==
    [issues |-> <<>>,
     strengths |->
        When("pool" \in content, "Uses database connection pooling")
        \o When("clouddb" \in content, "Uses cloud-managed database services")
        \o When("migration" \in content, "Includes database migration support")]

\* Scores in twentieths.
BaseScore == 140
StrengthBonusCap == 60

Min(a, b) == IF a <= b THEN a ELSE b
Max(a, b) == IF a >= b THEN a ELSE b

Deduction(sv) ==
    IF sv = "High" THEN 40 ELSE IF sv = "Medium" THEN 20 ELSE IF sv = "Low" THEN 10 ELSE 0

RECURSIVE SumDeductions(_)
SumDeductions(issues) ==
    IF issues = <<>> THEN 0
    ELSE Deduction(Head(issues).severity) + SumDeductions(Tail(issues))

calculateStaticScoreUnclamped(issues, strengths) ==
    BaseScore - SumDeductions(issues) + Min(Len(strengths) * 10, StrengthBonusCap)

\* A score whose bonus for strengths has no cap.
calculateStaticScoreNoCap(issues, strengths) ==
    Max(0, Min(200, BaseScore - SumDeductions(issues) + Len(strengths) * 10))

calculateStaticScore(issues, strengths) ==
    Max(0, Min(200, calculateStaticScoreUnclamped(issues, strengths)))

HasCategory(issues, c) == \E i \in 1..Len(issues) : issues[i].category = c

generateRecommendations(issues, provider) ==
    When(HasCategory(issues, "Configuration"),
         IF provider = "atlas" THEN "Use MongoDB Atlas App Services for configuration and secrets management"
         ELSE "Use AWS configuration services (Parameter Store, Key Vault, etc.)")
    \o When(HasCategory(issues, "Security"),
         IF provider = "atlas" THEN "Implement MongoDB Atlas security best practices including Network Access Lists and Database Users"
         ELSE "Implement cloud security best practices and use managed identity services")
    \o When(HasCategory(issues, "Observability"),
         IF provider = "atlas" THEN "Integrate with MongoDB Atlas monitoring, alerts, and performance advisor"
         ELSE "Integrate with cloud monitoring and logging services")
    \o When(HasCategory(issues, "Scalability"),
         IF provider = "atlas" THEN "Design for MongoDB Atlas auto-scaling and use Atlas Data Lake for analytics"
         ELSE "Design for horizontal scaling and use managed services")

performStaticAnalysis(content, provider) ==
    LET checks == <<checkConfigurationManagement(content), checkLoggingPatterns(content),
                    checkSecurityPatterns(content), checkScalabilityPatterns(content),
                    checkContainerReadiness(content), checkDatabasePatterns(content)>>
        issues == checks[1].issues \o checks[2].issues \o checks[3].issues
                  \o checks[4].issues \o checks[5].issues \o checks[6].issues
        strengths == checks[1].strengths \o checks[2].strengths \o checks[3].strengths
                     \o checks[4].strengths \o checks[5].strengths \o checks[6].strengths
    IN  [readinessScore |-> calculateStaticScore(issues, strengths),
         issues |-> issues,
         strengths |-> strengths,
         recommendations |-> generateRecommendations(issues, provider)]

(***************************************************************************)
(* The parsed LLM assessment.  A field of the parsed object is absent      *)
(* (undefined), an array, or a number (any value that is not an array).    *)
(***************************************************************************)
Absent     == [present |-> FALSE, isArray |-> FALSE, items |-> <<>>]
NotAnArray == [present |-> TRUE, isArray |-> FALSE, items |-> <<>>]
Array(xs)  == [present |-> TRUE, isArray |-> TRUE, items |-> xs]

NoScore  == [present |-> FALSE, n |-> 0]
Score(n) == [present |-> TRUE, n |-> n]

\* Items an LLM may put in "issues": null, or an object whose category and
\* severity may be missing ("") or outside the declared enumeration.
NullItem == [isNull |-> TRUE, category |-> "", severity |-> "", description |-> "", recommendation |-> ""]
Item(c, sv, d) == [isNull |-> FALSE, category |-> c, severity |-> sv, description |-> d, recommendation |-> "Fix it"]

LlmIssueItems ==
    {NullItem,
     Item("", "", "Hardcoded secrets detected"),
     Item("Resilience", "Low", "No retry logic"),
     Item("Resilience", "High", "No retry logic"),
     Item("Resilience", "Critical", "No circuit breaker")}

RECURSIVE ItemSeqs(_)
ItemSeqs(n) ==
    IF n = 0 THEN {<<>>}
    ELSE LET shorter == ItemSeqs(n - 1)
         IN  shorter \cup {Append(q, i) : q \in {r \in shorter : Len(r) = n - 1}, i \in LlmIssueItems}

LlmScores == {NoScore, Score(0), Score(146), Score(200), Score(2000)}

\* A response that names the same issue twice.
RepeatedIssue ==
    <<Item("Resilience", "Low", "No retry logic"), Item("Resilience", "High", "No retry logic")>>

LlmIssueFields ==
    {Absent, NotAnArray, Array(RepeatedIssue)} \cup {Array(q) : q \in ItemSeqs(MaxLlmIssues)}

LlmListFields ==
    {[strengths |-> Absent, recommendations |-> Absent],
     [strengths |-> Array(<<"Uses HTTPS for external communications", "Stateless design">>),
      recommendations |-> Array(<<"Adopt managed services">>)],
     [strengths |-> NotAnArray, recommendations |-> Absent]}

EmptyObject ==
    [readinessScore |-> NoScore, issues |-> Absent, strengths |-> Absent, recommendations |-> Absent]

LlmObjects ==
    {[readinessScore |-> sc, issues |-> is, strengths |-> l.strengths,
      recommendations |-> l.recommendations] :
        sc \in LlmScores, is \in LlmIssueFields, l \in LlmListFields}

\* What LlmService.assessCloudReadiness does: no service configured, a failed
\* request, or a response; a response text that is a JSON object carries the
\* fields of that object.
ObjectText == <<"{", "k", "1", "}">>
OtherTexts == {<<"x">>, <<"1">>, <<"n">>, <<"{">>, <<"{", "}", "{", "}">>}

CloudLlmOutcomes ==
    {[kind |-> k, isNull |-> FALSE, content |-> <<>>, value |-> EmptyObject] : k \in {"none", "fails"}}
    \cup {[kind |-> "response", isNull |-> TRUE, content |-> <<>>, value |-> EmptyObject]}
    \cup {[kind |-> "response", isNull |-> FALSE, content |-> t, value |-> EmptyObject] : t \in OtherTexts}
    \cup {[kind |-> "response", isNull |-> FALSE, content |-> ObjectText, value |-> v] : v \in LlmObjects}

\* parseLlmResponse: the parsed value, or null when match or JSON.parse throws.
parseLlmResponse(resp) ==
    IF resp.isNull \/ ~IsJsonValue(JsonContent(resp.content))
    THEN [kind |-> "null", fields |-> EmptyObject]
    ELSE LET v == JsonParse(JsonContent(resp.content))
         IN  [kind |-> v.kind, fields |-> IF v.kind = "object" THEN resp.value ELSE EmptyObject]

\* Truthiness of a parsed value and of a field.
Truthy(v) == v.kind # "null"
ScoreOrFive(sc) == IF sc.present /\ sc.n # 0 THEN sc.n ELSE 100

RECURSIVE Dedupe(_)
Dedupe(xs) ==
    IF xs = <<>> THEN <<>>
    ELSE LET init == Dedupe(SubSeq(xs, 1, Len(xs) - 1))
             last == xs[Len(xs)]
         IN  IF \E i \in 1..Len(init) : init[i] = last THEN init ELSE Append(init, last)

\* Math.round(finalScore * 10) / 10, on twentieths.
RoundToTenth(x) == ((x + 1) \div 2) * 2

OrDefault(x, d) == IF x = "" THEN d ELSE x

RECURSIVE MergeIssues(_, _, _)
MergeIssues(existing, final, items) ==
    IF items = <<>> THEN final
    ELSE LET i == Head(items)
         IN  MergeIssues(existing,
                 IF i.description \in existing THEN final
                 ELSE Append(final, Issue(OrDefault(i.category, "General"),
                                          OrDefault(i.severity, "Medium"),
                                          i.description, i.recommendation)),
                 Tail(items))

Descriptions(issues) == {issues[i].description : i \in 1..Len(issues)}

\* A merge statement of combineAssessments raises a TypeError.
CombineThrows(llm) ==
    /\ Truthy(llm)
    /\ \/ llm.fields.issues.present /\ ~llm.fields.issues.isArray
       \/ /\ llm.fields.issues.present
          /\ \E i \in 1..Len(llm.fields.issues.items) : llm.fields.issues.items[i].isNull
       \/ llm.fields.strengths.present /\ ~llm.fields.strengths.isArray
       \/ llm.fields.recommendations.present /\ ~llm.fields.recommendations.isArray

Assessment(sc, is, st, rc, w) ==
    [threw |-> FALSE, warned |-> w,
     value |-> [readinessScore |-> sc, issues |-> is, strengths |-> st, recommendations |-> rc]]

ThrownAssessment(w) ==
    [threw |-> TRUE, warned |-> w,
     value |-> [readinessScore |-> 0, issues |-> <<>>, strengths |-> <<>>, recommendations |-> <<>>]]

NoAssessment == NoCloudResult

combineAssessments(llm, static, w) ==
    IF ~Truthy(llm)
    THEN Assessment(RoundToTenth(static.readinessScore), static.issues, static.strengths,
                    static.recommendations, w)
    ELSE IF CombineThrows(llm) THEN ThrownAssessment(w)
    ELSE Assessment(
            RoundToTenth((static.readinessScore + ScoreOrFive(llm.fields.readinessScore)) \div 2),
            IF llm.fields.issues.present
            THEN MergeIssues(Descriptions(static.issues), static.issues, llm.fields.issues.items)
            ELSE static.issues,
            IF llm.fields.strengths.present
            THEN Dedupe(static.strengths \o llm.fields.strengths.items)
            ELSE static.strengths,
            IF llm.fields.recommendations.present
            THEN Dedupe(static.recommendations \o llm.fields.recommendations.items)
            ELSE static.recommendations,
            w)

assessFileNoFallback(content, provider, llm) ==
    IF llm.kind = "fails" THEN ThrownAssessment(FALSE)
    ELSE combineAssessments(
            IF llm.kind = "none" THEN [kind |-> "null", fields |-> EmptyObject]
            ELSE parseLlmResponse(llm),
            performStaticAnalysis(content, provider), FALSE)

assessFile(content, provider, llm) ==
    LET llmAssessment ==
            IF llm.kind = "response" THEN parseLlmResponse(llm)
            ELSE [kind |-> "null", fields |-> EmptyObject]
    IN  combineAssessments(llmAssessment, performStaticAnalysis(content, provider),
                           llm.kind = "fails")

calculateOverallReadiness(scores) ==
    LET RECURSIVE Sum(_)
        Sum(q) == IF q = <<>> THEN 0 ELSE Head(q) + Sum(Tail(q))
    IN  IF Len(scores) = 0 THEN 0 ELSE Sum(scores) \div Len(scores)

\* One call of assessFile on the file chosen at the start; the LLM service
\* answers in any of the ways it can.
AssessFileCall ==
    /\ cProvider # Idle
    /\ cLlm = NoCloudOutcome
    /\ \E llm \in CloudLlmOutcomes :
          /\ cLlm' = llm
          /\ cResult' = assessFile(cContent, cProvider, llm)
    /\ UNCHANGED <<cContent, cProvider, archVars, owaspVars, cmdVars, extVars>>

InitCloud ==
    /\ cContent \in Contents
    /\ cProvider \in Providers
    /\ cLlm = NoCloudOutcome
    /\ cResult = NoAssessment
    /\ ArchIdle /\ OwaspIdle /\ CmdIdle /\ ExtIdle

NextCloud == AssessFileCall

SpecCloud == InitCloud /\ [][NextCloud]_vars

Called == cLlm # NoCloudOutcome

Unparseable(llm) ==
    llm.kind = "response" /\ (llm.isNull \/ ~IsJsonValue(JsonContent(llm.content)))

\* C9: the readinessScore of every returned assessment lies in [0, 10].
C9_ScoreInRange ==
    (Called /\ ~cResult.threw) =>
        (cResult.value.readinessScore >= 0 /\ cResult.value.readinessScore <= 200)

\* C10: with no LLM service, a failed request or an unparseable response,
\* assessFile returns, and returns exactly the static analysis of the file.
C10_StaticFallback ==
    (Called /\ (cLlm.kind \in {"none", "fails"} \/ Unparseable(cLlm))) =>
        /\ ~cResult.threw
        /\ cResult.value = performStaticAnalysis(cContent, cProvider)

\* A failed LLM request on a file with static findings has been replaced by
\* the static result.
C10_Witness ==
    /\ Called
    /\ cLlm.kind = "fails"
    /\ cContent = {"secret", "https"}
    /\ ~cResult.threw
    /\ Len(cResult.value.issues) = 1
    /\ cResult.value.readinessScore = 110

\* The parsed LLM assessment of the call.
LlmAssessment == parseLlmResponse(cLlm)

\* C19: when the LLM assessment was parsed and carries a readinessScore s
\* between 0 and 10, both included, the readinessScore of the result is the
\* mean of the static score and s, rounded to one decimal place.
C19_ScoreIsMean ==
    (Called /\ ~cResult.threw /\ cLlm.kind = "response" /\ LlmAssessment.kind = "object"
        /\ LlmAssessment.fields.readinessScore.present
        /\ LlmAssessment.fields.readinessScore.n \in 0..200)
    => cResult.value.readinessScore =
          RoundToTenth((performStaticAnalysis(cContent, cProvider).readinessScore
                        + LlmAssessment.fields.readinessScore.n) \div 2)

\* C20: no two issues of a returned assessment have the same description.
C20_NoDuplicateIssues ==
    (Called /\ ~cResult.threw) =>
        \A i, j \in 1..Len(cResult.value.issues) :
            cResult.value.issues[i].description = cResult.value.issues[j].description => i = j

(***************************************************************************)
(* OwaspDependencyCheckService.parseOwaspReport.  A report is missing, is  *)
(* not XML, has no analysis element, or is a list of dependencies, each    *)
(* with its list of vulnerability elements.  CVSS scores are in tenths.    *)
(***************************************************************************)
MaxDeps == 2

\* The severity element: absent or empty, a text, or an element with
\* attributes (which the XML parser delivers as an object, not a string).
NoSeverity       == [isString |-> TRUE, text |-> ""]
SeverityText(t)  == [isString |-> TRUE, text |-> t]
SeverityObject   == [isString |-> FALSE, text |-> ""]

RawSeverities ==
    {NoSeverity, SeverityText("CRITICAL"), SeverityText("High"), SeverityText("low"),
     SeverityText("MODERATE"), SeverityObject}

\* The cvssV3 baseScore element: absent, or its number.
NoBaseScore == [present |-> FALSE, n |-> 0]
BaseScores == {NoBaseScore} \cup {[present |-> TRUE, n |-> n] : n \in {39, 70, 98}}

VulnElements == [severity : RawSeverities, baseScore : BaseScores]

VulnLists ==
    {<<>>} \cup {<<v>> : v \in VulnElements}
    \cup {<<[severity |-> SeverityText("CRITICAL"), baseScore |-> [present |-> TRUE, n |-> 98]],
            [severity |-> SeverityText("low"), baseScore |-> [present |-> TRUE, n |-> 39]]>>}

RECURSIVE DepSeqs(_)
DepSeqs(n) ==
    IF n = 0 THEN {<<>>}
    ELSE LET shorter == DepSeqs(n - 1)
         IN  shorter \cup {Append(q, d) : q \in {r \in shorter : Len(r) = n - 1}, d \in VulnLists}

Reports ==
    {[kind |-> k, deps |-> <<>>] : k \in {"missing", "badxml", "noanalysis"}}
    \cup {[kind |-> "ok", deps |-> q] : q \in DepSeqs(MaxDeps)}

\* rawSeverity.toLowerCase()
ToLowerCase(t) ==
    CASE t = "CRITICAL" -> "critical"
      [] t = "Critical" -> "critical"
      [] t = "HIGH" -> "high"
      [] t = "High" -> "high"
      [] t = "MEDIUM" -> "medium"
      [] t = "Medium" -> "medium"
      [] t = "LOW" -> "low"
      [] t = "Low" -> "low"
      [] t = "MODERATE" -> "moderate"
      [] OTHER -> t

mapSeverity(rawSeverity) ==
    LET normalizedSeverity == ToLowerCase(rawSeverity)
    IN  CASE normalizedSeverity = "critical" -> "Critical"
          [] normalizedSeverity = "high" -> "High"
          [] normalizedSeverity = "medium" -> "Medium"
          [] normalizedSeverity = "low" -> "Low"
          [] OTHER -> "Medium"

\* parseVulnerability's thresholds: the severity of a CVSS score.
SeverityOfScore(cvssScore) ==
    IF cvssScore >= 90 THEN "Critical"
    ELSE IF cvssScore >= 70 THEN "High"
    ELSE IF cvssScore >= 40 THEN "Medium"
    ELSE "Low"

\* The record parseOwaspReport builds for one vulnerability element.
VulnRecord(v) ==
    [severity |-> mapSeverity(OrDefault(v.severity.text, "Low")),
     cvssScore |-> IF v.baseScore.present /\ v.baseScore.n # 0 THEN v.baseScore.n ELSE 0]

\* The inner loop: an element whose processing throws is logged and skipped.
RECURSIVE VulnRecords(_)
VulnRecords(vs) ==
    IF vs = <<>> THEN <<>>
    ELSE (IF Head(vs).severity.isString THEN <<VulnRecord(Head(vs))>> ELSE <<>>)
         \o VulnRecords(Tail(vs))

RECURSIVE AllVulnRecords(_)
AllVulnRecords(deps) ==
    IF deps = <<>> THEN <<>> ELSE VulnRecords(Head(deps)) \o AllVulnRecords(Tail(deps))

parseOwaspReport(report) ==
    IF report.kind # "ok"
    THEN [threw |-> TRUE, called |-> TRUE, value |-> NoOwaspResult.value]
    ELSE [threw |-> FALSE, called |-> TRUE,
          value |-> [scanSuccess |-> TRUE,
                     dependencies |-> Len(report.deps),
                     vulnerableDependencies |->
                        Cardinality({i \in 1..Len(report.deps) : report.deps[i] # <<>>}),
                     vulnerabilities |-> AllVulnRecords(report.deps)]]

ParseOwaspReportCall ==
    /\ oReport.kind # Idle
    /\ ~oResult.called
    /\ oResult' = parseOwaspReport(oReport)
    /\ UNCHANGED <<oReport, archVars, cloudVars, cmdVars, extVars>>

InitOwasp ==
    /\ oReport \in Reports
    /\ oResult = NoOwaspResult
    /\ ArchIdle /\ CloudIdle /\ CmdIdle /\ ExtIdle

NextOwasp == ParseOwaspReportCall

SpecOwasp == InitOwasp /\ [][NextOwasp]_vars

SeverityRank(sv) ==
    CASE sv = "Low" -> 1 [] sv = "Medium" -> 2 [] sv = "High" -> 3 [] sv = "Critical" -> 4
      [] OTHER -> 0

Vulns == oResult.value.vulnerabilities

\* C6: the severity of every parsed vulnerability is the one its CVSS score
\* gives: >= 9 Critical, >= 7 High, >= 4 Medium, else Low.
C6_SeverityFromScore ==
    \A i \in 1..Len(Vulns) : Vulns[i].severity = SeverityOfScore(Vulns[i].cvssScore)

\* C7: of two parsed vulnerabilities, the one with the lower score never has
\* the higher severity.
C7_SeverityMonotonic ==
    \A i, j \in 1..Len(Vulns) :
        Vulns[i].cvssScore <= Vulns[j].cvssScore
            => SeverityRank(Vulns[i].severity) <= SeverityRank(Vulns[j].severity)

(***************************************************************************)
(* The records of both analyses together.                                  *)
(***************************************************************************)
InitRecords == InitCloud \/ InitOwasp

NextRecords == AssessFileCall \/ ParseOwaspReportCall

SpecRecords == InitRecords /\ [][NextRecords]_vars

\* The OWASP half of C8: every parsed vulnerability has one of the four
\* severities, whatever the report carries.
OwaspSeverityEnumerated ==
    \A i \in 1..Len(Vulns) : Vulns[i].severity \in {"Critical", "High", "Medium", "Low"}

\* C8: severity is one of the fixed enumeration in every produced record: the
\* four OWASP severities, and High, Medium or Low for every issue of a
\* CloudAssessment.
C8_SeverityEnumerated ==
    /\ OwaspSeverityEnumerated
    /\ \A i \in 1..Len(cResult.value.issues) :
          cResult.value.issues[i].severity \in {"High", "Medium", "Low"}

(***************************************************************************)
(* The three command handlers and main.  pc is the handler's position;     *)
(* "threw" is a handler whose promise rejected, "done" one that returned.  *)
(***************************************************************************)
MaxFiles == 2

Commands == {"cve", "architect", "cloud-readiness"}

\* The scanned files of a cloud-readiness run: whether readFileSync succeeds
\* on the file, and the patterns its content matches.
FileContents == {{}, {"secret", "https"}}
ScannedFile == [readable : BOOLEAN, content : FileContents]

RECURSIVE FileSeqs(_)
FileSeqs(n) ==
    IF n = 0 THEN {<<>>}
    ELSE LET shorter == FileSeqs(n - 1)
         IN  shorter \cup {Append(q, f) : q \in {r \in shorter : Len(r) = n - 1}, f \in ScannedFile}

Response(text, v) == [kind |-> "response", isNull |-> FALSE, content |-> text, value |-> v]
NoService == [kind |-> "none", isNull |-> FALSE, content |-> <<>>, value |-> EmptyObject]

\* What the LLM service does for one file during a command.
HandlerLlmOutcomes ==
    {[kind |-> "fails", isNull |-> FALSE, content |-> <<>>, value |-> EmptyObject],
     Response(<<"x">>, EmptyObject),
     Response(ObjectText, [EmptyObject EXCEPT !.readinessScore = Score(146)]),
     Response(ObjectText, [EmptyObject EXCEPT !.issues = NotAnArray])}

JsonFile     == [ext |-> "json", timestamped |-> TRUE]
MarkdownFile == [ext |-> "md", timestamped |-> TRUE]
OutputOptionFile == [ext |-> "json", timestamped |-> FALSE]

\* saveAnalysisResults writes the JSON file and the Markdown report.
saveAnalysisResults == {JsonFile, MarkdownFile}

cmdArgs == <<cmd, pathExists, hasKey, outputOpt, files>>
cmdRest == <<cmdArgs, inFlight, started>>

\* fs.existsSync(argv.path), first statement of every handler's try block.
ValidatePath ==
    /\ pc = "start"
    /\ pc' = IF pathExists THEN "pathOk" ELSE "threw"
    /\ UNCHANGED <<cmdRest, idx, assessments, warnings, written, llmRequests,
                   archAnalysis, overallScore, exitCode, archVars, cloudVars, owaspVars, extVars>>

\* A handler that starts its work whether or not an API key was given.
ValidateKeyNoCheck ==
    /\ pc = "pathOk"
    /\ pc' = IF cmd = "cloud-readiness" THEN "scan" ELSE "run"
    /\ UNCHANGED <<cmdRest, idx, assessments, warnings, written, llmRequests,
                   archAnalysis, overallScore, exitCode, archVars, cloudVars, owaspVars, extVars>>

\* if (!argv.llmApiKey) throw, in cve and architect; cloud-readiness builds
\* its LlmService only when a key is given and goes on without one.
ValidateKey ==
    /\ pc = "pathOk"
    /\ pc' = IF cmd = "cloud-readiness" THEN "scan"
             ELSE IF hasKey THEN "run" ELSE "threw"
    /\ UNCHANGED <<cmdRest, idx, assessments, warnings, written, llmRequests,
                   archAnalysis, overallScore, exitCode, archVars, cloudVars, owaspVars, extVars>>

\* cve: analyzeProject, display and save; analyzeProject may reject.
CveAnalyzeAndSave ==
    /\ pc = "run" /\ cmd = "cve"
    /\ \E analyzed \in BOOLEAN :
          IF analyzed
          THEN pc' = "done" /\ written' = written \cup saveAnalysisResults
          ELSE pc' = "threw" /\ written' = written
    /\ UNCHANGED <<cmdRest, idx, assessments, warnings, llmRequests,
                   archAnalysis, overallScore, exitCode, archVars, cloudVars, owaspVars, extVars>>

\* The responses the architect command's LLM request can get.
ArchOutcomes ==
    {[kind |-> "fails", isNull |-> FALSE, content |-> <<>>]}
    \cup {[kind |-> "response", isNull |-> FALSE, content |-> t] :
            t \in {<<"x">>, ObjectText, <<"n">>, <<"1">>}}

\* architect: packageCodebase, then analyzeArchitecture.
ArchAnalyze ==
    /\ pc = "run" /\ cmd = "architect"
    /\ \E o \in ArchOutcomes : archAnalysis' = analyzeArchitecture(o).value.kind
    /\ llmRequests' = llmRequests + 1
    /\ pc' = "display"
    /\ UNCHANGED <<cmdRest, idx, assessments, warnings, written,
                   overallScore, exitCode, archVars, cloudVars, owaspVars, extVars>>

\* architect: the display reads fields of the analysis (a null analysis
\* raises), then the result is written only if --output was given.
ArchDisplayAndSave ==
    /\ pc = "display"
    /\ IF archAnalysis = "null"
       THEN pc' = "threw" /\ written' = written
       ELSE /\ pc' = "done"
            /\ written' = IF outputOpt THEN written \cup {OutputOptionFile} ELSE written
    /\ UNCHANGED <<cmdRest, idx, assessments, warnings, llmRequests,
                   archAnalysis, overallScore, exitCode, archVars, cloudVars, owaspVars, extVars>>

\* cloud-readiness: fileScanner.scanDirectory.
CloudScan ==
    /\ pc = "scan"
    /\ pc' = "loop"
    /\ idx' = 1
    /\ UNCHANGED <<cmdRest, assessments, warnings, written, llmRequests,
                   archAnalysis, overallScore, exitCode, archVars, cloudVars, owaspVars, extVars>>

LlmTag(llm) ==
    IF llm.kind # "response" THEN llm.kind
    ELSE IF Unparseable(llm) THEN "unparseable"
    ELSE "parsed"

\* The end of an iteration: assessFile has returned r, or raised.
CompleteAssessment(r, llm) ==
    /\ warnings' = IF r.warned THEN Append(warnings, idx) ELSE warnings
    /\ IF r.threw
       THEN pc' = "threw" /\ UNCHANGED <<idx, assessments>>
       ELSE /\ pc' = "loop"
            /\ idx' = idx + 1
            /\ assessments' =
                  Append(assessments,
                         [file |-> idx, llm |-> LlmTag(llm),
                          readinessScore |-> r.value.readinessScore])

\* An iteration that sends the file's request and goes on to the next file
\* without awaiting the assessment.
CloudAssessNextNoAwait ==
    /\ pc = "loop" /\ idx <= Len(files)
    /\ started' = Append(started, idx)
    /\ inFlight' = inFlight + 1
    /\ llmRequests' = llmRequests + 1
    /\ idx' = idx + 1
    /\ UNCHANGED <<cmdArgs, pc, assessments, warnings, written, archAnalysis, overallScore,
                   exitCode, archVars, cloudVars, owaspVars, extVars>>

\* cloud-readiness: one iteration of the per-file loop: readFileSync, then
\* assessFile, which with an LLM service sends its request and awaits the
\* response; an exception of either leaves the loop and the try block.
CloudAssessNext ==
    /\ pc = "loop" /\ idx <= Len(files)
    /\ IF ~files[idx].readable
       THEN /\ pc' = "threw"
            /\ UNCHANGED <<idx, assessments, warnings, llmRequests, inFlight, started>>
       ELSE /\ started' = Append(started, idx)
            /\ IF hasKey
               THEN /\ pc' = "awaiting"
                    /\ inFlight' = inFlight + 1
                    /\ llmRequests' = llmRequests + 1
                    /\ UNCHANGED <<idx, assessments, warnings>>
               ELSE /\ CompleteAssessment(assessFile(files[idx].content, "aws", NoService),
                                          NoService)
                    /\ UNCHANGED <<llmRequests, inFlight>>
    /\ UNCHANGED <<cmdArgs, written, archAnalysis, overallScore, exitCode,
                   archVars, cloudVars, owaspVars, extVars>>

\* cloud-readiness: the awaited request settles (a response or a failure)
\* and assessFile goes on to its static analysis and the merge.
CloudLlmSettle ==
    /\ pc = "awaiting"
    /\ inFlight' = inFlight - 1
    /\ \E llm \in HandlerLlmOutcomes :
          CompleteAssessment(assessFile(files[idx].content, "aws", llm), llm)
    /\ UNCHANGED <<cmdArgs, started, llmRequests, written, archAnalysis, overallScore,
                   exitCode, archVars, cloudVars, owaspVars, extVars>>

Scores(as) == [i \in 1..Len(as) |-> as[i].readinessScore]

\* cloud-readiness: after the loop, the overall score, the display and the
\* saved results.
CloudFinish ==
    /\ pc = "loop" /\ idx > Len(files)
    /\ overallScore' = calculateOverallReadiness(Scores(assessments))
    /\ written' = written \cup saveAnalysisResults
    /\ pc' = "done"
    /\ UNCHANGED <<cmdRest, idx, assessments, warnings, llmRequests,
                   archAnalysis, exitCode, archVars, cloudVars, owaspVars, extVars>>

\* main: a rejected handler reaches main().catch, which exits with code 1;
\* otherwise the process ends with code 0.
MainExit ==
    /\ pc \in {"threw", "done"}
    /\ exitCode' = IF pc = "threw" THEN 1 ELSE 0
    /\ pc' = "exited"
    /\ UNCHANGED <<cmdRest, idx, assessments, warnings, written, llmRequests,
                   archAnalysis, overallScore, archVars, cloudVars, owaspVars, extVars>>

InitCmd ==
    /\ cmd \in Commands
    /\ pathExists \in BOOLEAN
    /\ hasKey \in BOOLEAN
    /\ outputOpt \in (IF cmd = "architect" THEN BOOLEAN ELSE {FALSE})
    /\ files \in (IF cmd = "cloud-readiness" THEN FileSeqs(MaxFiles) ELSE {<<>>})
    /\ pc = "start" /\ idx = 0 /\ assessments = <<>> /\ warnings = <<>>
    /\ written = {} /\ llmRequests = 0 /\ archAnalysis = Idle /\ overallScore = 0
    /\ exitCode = -1 /\ inFlight = 0 /\ started = <<>>
    /\ ArchIdle /\ CloudIdle /\ OwaspIdle /\ ExtIdle

NextCmd ==
    \/ ValidatePath
    \/ ValidateKey
    \/ CveAnalyzeAndSave
    \/ ArchAnalyze
    \/ ArchDisplayAndSave
    \/ CloudScan
    \/ CloudAssessNext
    \/ CloudLlmSettle
    \/ CloudFinish
    \/ MainExit

SpecCmd == InitCmd /\ [][NextCmd]_vars

AllReadable == \A i \in 1..Len(files) : files[i].readable
ReadableFiles == {i \in 1..Len(files) : files[i].readable}
AssessedFiles == {assessments[i].file : i \in 1..Len(assessments)}
Ended == pc = "exited"

\* C2: in cloud-readiness, the failure of one file's analysis (a failed
\* request, an unparseable response, a response with fields of unexpected
\* types) does not abort the batch: a warning is logged for it, every scanned
\* file is assessed and the results are written.
C2_FailureDoesNotAbortBatch ==
    (cmd = "cloud-readiness" /\ pathExists /\ AllReadable /\ Ended) =>
        /\ exitCode = 0
        /\ AssessedFiles = 1..Len(files)
        /\ saveAnalysisResults \subseteq written
        /\ \A i \in 1..Len(assessments) :
              assessments[i].llm \in {"fails", "unparseable"}
                  => \E w \in 1..Len(warnings) : warnings[w] = assessments[i].file

\* C3: in cloud-readiness (here without an LLM service, so that reading is
\* the only step that can fail), an unreadable file is skipped: the command
\* completes with an assessment for every readable file.
C3_UnreadableFileSkipped ==
    (cmd = "cloud-readiness" /\ pathExists /\ ~hasKey /\ Ended) =>
        /\ exitCode = 0
        /\ AssessedFiles = ReadableFiles
        /\ saveAnalysisResults \subseteq written

\* C4 as stated: in each of the three subcommands a missing path and a
\* missing API key are both fatal.
C4_PathAndKeyFatalEverywhere ==
    (Ended /\ (~pathExists \/ ~hasKey)) => (exitCode = 1 /\ written = {})

\* C4, amended: a missing path is fatal in each subcommand and a missing API
\* key is fatal in cve and architect: the command aborts, writes nothing and
\* the process exits with code 1.
C4_FatalErrors ==
    (Ended /\ (~pathExists \/ (cmd \in {"cve", "architect"} /\ ~hasKey)))
        => (exitCode = 1 /\ written = {} /\ llmRequests = 0)

\* A cve run with an existing path and no API key has exited with code 1.
C4_Witness ==
    cmd = "cve" /\ pathExists /\ ~hasKey /\ Ended /\ exitCode = 1

\* C5: every successful run of each subcommand has written a timestamped
\* JSON result file and a timestamped Markdown report.
C5_EveryCommandSavesBoth ==
    (Ended /\ exitCode = 0) => (JsonFile \in written /\ MarkdownFile \in written)

\* C16: in cloud-readiness, files are processed one at a time: the
\* assessment of a file is started only when the assessments of all files
\* before it in the sorted list have completed, at most one LLM request is
\* in flight, and the assessments are in the order of the list of files.
C16_OneFileAtATime ==
    cmd = "cloud-readiness" =>
        /\ inFlight <= 1
        /\ \A i \in 1..Len(started) : started[i] = i /\ i <= Len(assessments) + 1
        /\ \A i \in 1..Len(assessments) : assessments[i].file = i

\* The request of the second file is in flight after the first file's
\* assessment has completed.
C16_Witness ==
    /\ cmd = "cloud-readiness" /\ hasKey
    /\ pc = "awaiting" /\ inFlight = 1
    /\ started = <<1, 2>>
    /\ Len(assessments) = 1

(***************************************************************************)
(* OwaspDependencyCheckService.runDependencyCheck.  The environment of a   *)
(* call: the kind of project, whether the report directory exists or can   *)
(* be created, whether the scanner command (mvn or dependency-check.sh)    *)
(* and the Docker command succeed, and the reports found at the two places *)
(* that are parsed: for Maven the report directory and target/, otherwise  *)
(* the report directory after the CLI run and after the Docker run.        *)
(***************************************************************************)
Projects == {"maven", "gradle", "generic"}

ScanReports ==
    {r \in Reports : Len(r.deps) = 0}
    \cup {[kind |-> "ok",
           deps |-> <<<<[severity |-> SeverityText("High"),
                        baseScore |-> [present |-> TRUE, n |-> 70]]>>>>]}

ScanEnvs ==
    [project : Projects, mkdir : BOOLEAN, scanner : BOOLEAN, docker : BOOLEAN,
     first : ScanReports, second : ScanReports]

\* The object literal returned by the two catch blocks.
FallbackResult == [threw |-> FALSE, called |-> TRUE, value |-> NoOwaspResult.value]
ScanThrown     == [threw |-> TRUE, called |-> TRUE, value |-> NoOwaspResult.value]

runDockerDependencyCheck(env) ==
    IF env.docker /\ ~parseOwaspReport(env.second).threw
    THEN parseOwaspReport(env.second)
    ELSE FallbackResult

runGenericDependencyCheck(env) ==
    IF ~env.mkdir THEN ScanThrown
    ELSE IF env.scanner /\ ~parseOwaspReport(env.first).threw
    THEN parseOwaspReport(env.first)
    ELSE runDockerDependencyCheck(env)

runGradleDependencyCheck(env) == runGenericDependencyCheck(env)

\* The Maven command's failure is only logged; the two report locations are
\* tried in turn and an error is thrown when neither can be parsed.
runMavenDependencyCheck(env) ==
    IF ~env.mkdir THEN ScanThrown
    ELSE IF ~parseOwaspReport(env.first).threw THEN parseOwaspReport(env.first)
    ELSE IF ~parseOwaspReport(env.second).threw THEN parseOwaspReport(env.second)
    ELSE ScanThrown

ScanByProject(env) ==
    CASE env.project = "maven" -> runMavenDependencyCheck(env)
      [] env.project = "gradle" -> runGradleDependencyCheck(env)
      [] OTHER -> runGenericDependencyCheck(env)

\* runDependencyCheck without its try/catch.
runDependencyCheckNoCatch(env) == ScanByProject(env)

runDependencyCheck(env) ==
    LET r == ScanByProject(env)
    IN  IF r.threw THEN FallbackResult ELSE r

\* The commands started with execSync and the report locations handed to
\* parseOwaspReport, in the order of the calls.
DockerSteps(env) ==
    <<"docker">> \o (IF env.docker THEN <<"parse reportDir">> ELSE <<>>)

\* A generic run that starts the Docker scanner before the CLI scanner.
GenericStepsDockerFirst(env) ==
    IF ~env.mkdir THEN <<>> ELSE DockerSteps(env) \o <<"cli">>

GenericSteps(env) ==
    IF ~env.mkdir THEN <<>>
    ELSE <<"cli">>
         \o (IF env.scanner THEN <<"parse reportDir">> ELSE <<>>)
         \o (IF env.scanner /\ ~parseOwaspReport(env.first).threw THEN <<>> ELSE DockerSteps(env))

\* A Maven run that looks for a report only when the mvn command succeeded.
MavenStepsOnlyOnSuccess(env) ==
    IF ~env.mkdir THEN <<>>
    ELSE <<"mvn">> \o (IF env.scanner THEN <<"parse reportDir">> ELSE <<>>)

MavenSteps(env) ==
    IF ~env.mkdir THEN <<>>
    ELSE <<"mvn", "parse reportDir">>
         \o (IF parseOwaspReport(env.first).threw THEN <<"parse target">> ELSE <<>>)

StepsByProject(env) ==
    IF env.project = "maven" THEN MavenSteps(env) ELSE GenericSteps(env)

RunDependencyCheckCall ==
    /\ sEnv.project # Idle
    /\ ~sResult.called
    /\ sResult' = runDependencyCheck(sEnv)
    /\ sTrace' = StepsByProject(sEnv)
    /\ UNCHANGED <<sEnv, archVars, cloudVars, owaspVars, cmdVars, saveVars, fsVars, packVars, scoreVars, handlerVars, renderVars>>

InitScan ==
    /\ sEnv \in ScanEnvs
    /\ sResult = NoOwaspResult
    /\ sTrace = <<>>
    /\ ArchIdle /\ CloudIdle /\ OwaspIdle /\ CmdIdle /\ SaveIdle /\ FsIdle /\ PackIdle /\ ScoreIdle /\ HandlerIdle /\ RenderIdle

NextScan == RunDependencyCheckCall

SpecScan == InitScan /\ [][NextScan]_vars

\* The reports of the environment that parseOwaspReport accepts.
ParsedReports == {r \in {sEnv.first, sEnv.second} : r.kind = "ok"}

\* No step of the call yields a parsed report.
ScanFails ==
    \/ ~sEnv.mkdir
    \/ /\ sEnv.project = "maven"
       /\ ParsedReports = {}
    \/ /\ sEnv.project # "maven"
       /\ ~(sEnv.scanner /\ sEnv.first.kind = "ok")
       /\ ~(sEnv.docker /\ sEnv.second.kind = "ok")

\* C11: runDependencyCheck never throws; when no step yields a parsed report
\* (the directory cannot be created, the commands fail, the report is
\* missing or unparseable) it returns scanSuccess = false with 0
\* dependencies, 0 vulnerable dependencies and no vulnerabilities; and
\* scanSuccess = true is returned only with the content of a parsed report.
C11_ScanNeverThrows ==
    sResult.called =>
        /\ ~sResult.threw
        /\ ScanFails => sResult = FallbackResult
        /\ ~sResult.value.scanSuccess => sResult = FallbackResult
        /\ sResult.value.scanSuccess =>
              \E r \in ParsedReports : sResult = parseOwaspReport(r)

\* A Maven project whose report directory cannot be created: the exception
\* of mkdirSync was replaced by the fallback result.
C11_Witness ==
    /\ sResult.called
    /\ sEnv.project = "maven"
    /\ ~sEnv.mkdir
    /\ sEnv.first.kind = "ok"
    /\ sResult = FallbackResult

(***************************************************************************)
(* saveAnalysisResults and generateMarkdownReport.  now is the value of    *)
(* the system clock in milliseconds; it may advance between any two steps  *)
(* of a call and between calls.  A project path is a sequence of           *)
(* characters; a file name is the record of the parts it is built from.    *)
(***************************************************************************)
MaxClock == 1
MaxCalls == 2
MsPerSecond == 1000

\* The analysis types the handlers pass (cve.ts:109 and cve.ts:878) and the
\* one of the remaining command.
AnalysisTypes == {"cve-enhanced", "cloud-readiness", "architect"}
CommandAnalysisTypes == {"cve-enhanced", "cloud-readiness"}

ProjectPaths == {<<"a">>, <<"a", "-", "b">>, <<"a", "_", "b">>, <<"b", "/", "a">>}

\* path.basename: what follows the last separator.
basename(p) ==
    LET seps == {i \in 1..Len(p) : p[i] = "/"}
        last == CHOOSE i \in seps : \A j \in seps : j <= i
    IN  IF seps = {} THEN p ELSE SubSeq(p, last + 1, Len(p))

\* .replace(/[^a-zA-Z0-9]/g, '_')
ReplaceNonAlnum(t) == [i \in 1..Len(t) |-> IF t[i] \in {"a", "b"} THEN t[i] ELSE "_"]

sanitizedPath(projectPath) == ReplaceNonAlnum(basename(projectPath))

\* new Date(d).toISOString(): the seconds, a dot, the milliseconds and Z.
toISOString(d) == <<ToString(d \div MsPerSecond), ".", ToString(d % MsPerSecond), "Z">>

\* .replace(/[:.]/g, '-')
ReplaceColonsAndDots(t) == [i \in 1..Len(t) |-> IF t[i] \in {":", "."} THEN "-" ELSE t[i]]

\* .split('.')[0]: the text before the first dot, all of it when there is none.
BeforeFirstDot(t) ==
    LET dots  == {i \in 1..Len(t) : t[i] = "."}
        first == CHOOSE i \in dots : \A j \in dots : i <= j
    IN  IF dots = {} THEN t ELSE SubSeq(t, 1, first - 1)

generateTimestamp(d) == BeforeFirstDot(ReplaceColonsAndDots(toISOString(d)))

FileName(analysisType, path, timestamp, ext) ==
    [analysisType |-> analysisType, path |-> path, timestamp |-> timestamp, ext |-> ext]

\* The type-specific section the switch appends after the header.
SummarySection(analysisType) ==
    CASE analysisType = "architect" -> "Executive Summary"
      [] analysisType = "cve" -> "Summary"
      [] analysisType = "cloud-readiness" -> "Summary"
      [] OTHER -> "none"

\* The report text: its title, the project line, the Analysis Date line
\* (new Date().toISOString() at the moment of rendering) and the
\* type-specific section.
generateMarkdownReport(analysisType, projectPath, d) ==
    [analysisType |-> analysisType, project |-> projectPath, date |-> toISOString(d),
     summary |-> SummarySection(analysisType)]

Tick ==
    /\ now < MaxClock
    /\ Len(saved) < MaxCalls
    /\ now' = now + 1
    /\ UNCHANGED <<saving, disk, saved, archVars, cloudVars, owaspVars, cmdVars, scanVars, fsVars, packVars, scoreVars, handlerVars, renderVars>>

\* Lines 16-20: the timestamp is taken once and both names are built from it.
SaveStart ==
    /\ saving.pc = Idle
    /\ Len(saved) < MaxCalls
    /\ \E analysisType \in AnalysisTypes, projectPath \in ProjectPaths :
          LET timestamp == generateTimestamp(now)
          IN  saving' = [NoSave EXCEPT
                       !.pc = "named",
                       !.analysisType = analysisType,
                       !.projectPath = projectPath,
                       !.timestamp = timestamp,
                       !.jsonFileName =
                          FileName(analysisType, sanitizedPath(projectPath), timestamp, "json"),
                       !.markdownFileName =
                          FileName(analysisType, sanitizedPath(projectPath), timestamp, "md")]
    /\ UNCHANGED <<now, disk, saved, archVars, cloudVars, owaspVars, cmdVars, scanVars, fsVars, packVars, scoreVars, handlerVars, renderVars>>

\* fs.writeFileSync: the file is created, or replaced when it exists.
WriteRecord(file) == [file |-> file, existed |-> file \in disk]

\* Line 23.
SaveWriteJson ==
    /\ saving.pc = "named"
    /\ disk' = disk \cup {saving.jsonFileName}
    /\ saving' = [saving EXCEPT !.pc = "jsonWritten",
                        !.writes = Append(@, WriteRecord(saving.jsonFileName))]
    /\ UNCHANGED <<now, saved, archVars, cloudVars, owaspVars, cmdVars, scanVars, fsVars, packVars, scoreVars, handlerVars, renderVars>>

\* Line 26.
SaveRender ==
    /\ saving.pc = "jsonWritten"
    /\ saving' = [saving EXCEPT !.pc = "rendered",
                        !.markdownContent =
                           generateMarkdownReport(saving.analysisType, saving.projectPath, now)]
    /\ UNCHANGED <<now, disk, saved, archVars, cloudVars, owaspVars, cmdVars, scanVars, fsVars, packVars, scoreVars, handlerVars, renderVars>>

\* A second write whose name is built from a timestamp taken anew.
SaveWriteMarkdownNewTimestamp ==
    /\ saving.pc = "rendered"
    /\ LET file == FileName(saving.analysisType, sanitizedPath(saving.projectPath),
                            generateTimestamp(now), "md")
       IN  /\ disk' = disk \cup {file}
           /\ saved' = Append(saved,
                          [analysisType |-> saving.analysisType,
                           projectPath |-> saving.projectPath,
                           writes |-> Append(saving.writes, WriteRecord(file)),
                           markdownContent |-> saving.markdownContent,
                           jsonFile |-> saving.jsonFileName,
                           markdownFile |-> file])
    /\ saving' = NoSave
    /\ UNCHANGED <<now, archVars, cloudVars, owaspVars, cmdVars, scanVars, fsVars, packVars, scoreVars, handlerVars, renderVars>>

\* Lines 27-29: the report is written and the two names are returned.
SaveWriteMarkdown ==
    /\ saving.pc = "rendered"
    /\ disk' = disk \cup {saving.markdownFileName}
    /\ saved' = Append(saved,
                   [analysisType |-> saving.analysisType,
                    projectPath |-> saving.projectPath,
                    writes |-> Append(saving.writes, WriteRecord(saving.markdownFileName)),
                    markdownContent |-> saving.markdownContent,
                    jsonFile |-> saving.jsonFileName,
                    markdownFile |-> saving.markdownFileName])
    /\ saving' = NoSave
    /\ UNCHANGED <<now, archVars, cloudVars, owaspVars, cmdVars, scanVars, fsVars, packVars, scoreVars, handlerVars, renderVars>>

InitSave ==
    /\ now = 0 /\ saving = NoSave /\ disk = {} /\ saved = <<>>
    /\ ArchIdle /\ CloudIdle /\ OwaspIdle /\ CmdIdle /\ ScanIdle /\ FsIdle /\ PackIdle /\ ScoreIdle /\ HandlerIdle /\ RenderIdle

NextSave ==
    \/ Tick
    \/ SaveStart
    \/ SaveWriteJson
    \/ SaveRender
    \/ SaveWriteMarkdown

SpecSave == InitSave /\ [][NextSave]_vars

\* C12: every call of saveAnalysisResults that returned has written exactly
\* two files, first a .json and then a .md file, whose names are equal up to
\* the extension, and has returned those two names, however the clock moved
\* during the call.
C12_TwoFilesSameBaseName ==
    \A i \in 1..Len(saved) :
        LET c == saved[i]
        IN  /\ Len(c.writes) = 2
            /\ c.writes[1].file.ext = "json"
            /\ c.writes[2].file.ext = "md"
            /\ [c.writes[1].file EXCEPT !.ext = "md"] = c.writes[2].file
            /\ c.jsonFile = c.writes[1].file
            /\ c.markdownFile = c.writes[2].file

\* A call during which the clock advanced between the timestamp and the
\* rendering of the report has returned.
C12_Witness ==
    \E i \in 1..Len(saved) :
        /\ saved[i].markdownContent.date # toISOString(0)
        /\ saved[i].jsonFile.timestamp = generateTimestamp(0)
        /\ saved[i].markdownFile.timestamp = generateTimestamp(0)

\* C13: no call of saveAnalysisResults writes to a file name that an earlier
\* call has written.
C13_UniqueFileNames ==
    \A i \in 1..Len(saved) :
        \A w \in 1..Len(saved[i].writes) : ~saved[i].writes[w].existed

\* C14: two renderings of the report with the same analysis type, data,
\* terminal output and project path give the same text.
C14_RenderIdempotent ==
    \A i, j \in 1..Len(saved) :
        (saved[i].analysisType = saved[j].analysisType
            /\ saved[i].projectPath = saved[j].projectPath)
        => saved[i].markdownContent = saved[j].markdownContent

\* C18: the Markdown report saved by a command (the cve command passes
\* "cve-enhanced", the cloud-readiness command "cloud-readiness") has a
\* type-specific summary section after its header.
C18_ReportHasSummary ==
    \A i \in 1..Len(saved) :
        saved[i].analysisType \in CommandAnalysisTypes
            => saved[i].markdownContent.summary # "none"

(***************************************************************************)
(* FileScanner.scanDirectory.  The tree below the scan target is the set   *)
(* of its files; a file is the sequence of the directory names that lead   *)
(* to it from the target, followed by its base name and its extension.     *)
(***************************************************************************)
MaxTreeFiles == 2

DirNames  == {"src", "target", ".cache"}
FileNames == {<<"A", ".java">>, <<"b", ".JAVA">>, <<"A", ".txt">>}

DirPaths == {<<>>} \cup {<<d>> : d \in DirNames} \cup {<<d, f>> : d \in DirNames, f \in DirNames}
FilePaths == {d \o f : d \in DirPaths, f \in FileNames}

RECURSIVE SubsetsUpTo(_, _)
SubsetsUpTo(S, n) ==
    IF n = 0 THEN {{}}
    ELSE LET smaller == SubsetsUpTo(S, n - 1)
         IN  smaller \cup {t \cup {x} : t \in smaller, x \in S}

Trees == SubsetsUpTo(FilePaths, MaxTreeFiles)

\* The --extensions argument; the constructor lowercases each entry.
ExtensionArgs == {{".java"}, {".JAVA"}, {".java", ".txt"}}
ExtToLowerCase(ext) == IF ext = ".JAVA" THEN ".java" ELSE ext
Extensions(args) == {ExtToLowerCase(x) : x \in args}

shouldIncludeFile(filePath, extensions) ==
    ExtToLowerCase(filePath[Len(filePath)]) \in extensions

skipDirs ==
    {"node_modules", ".git", ".svn", ".hg", "dist", "build", "target", "bin", "obj",
     ".idea", ".vscode", "__pycache__", ".pytest_cache", "coverage", ".nyc_output",
     "logs", "tmp", "temp", ".DS_Store"}

\* dirName.startsWith('.'), for the directory names of the trees and of the
\* skip set.
StartsWithDot(dirName) ==
    dirName \in {".cache", ".git", ".svn", ".hg", ".idea", ".vscode", ".pytest_cache",
                 ".nyc_output", ".DS_Store"}

\* A scanner that descends into every directory.
shouldSkipNoDirectory(dirName) == FALSE

shouldSkipDirectory(dirName) == dirName \in skipDirs \/ StartsWithDot(dirName)

IsUnder(p, dirPath) == Len(p) >= Len(dirPath) + 2 /\ SubSeq(p, 1, Len(dirPath)) = dirPath

\* The file system calls that can be refused (EACCES) during a scan: statSync
\* on the target, on a subdirectory or on a file, readdirSync on the target
\* or on a subdirectory.
Denials ==
    {NoDenial,
     [op |-> "stat", path |-> <<>>],
     [op |-> "readdir", path |-> <<>>],
     [op |-> "stat", path |-> <<"src">>],
     [op |-> "readdir", path |-> <<"src">>],
     [op |-> "stat", path |-> <<"A", ".java">>]}

Refused(denied, op, path) == denied.op = op /\ denied.path = path

\* The files pushed while dirPath is read: its own files with a configured
\* extension, and, when recursive, those of its subdirectories that are not
\* skipped.  Nothing is pushed for a directory that cannot be listed or for
\* an entry that cannot be stat'ed.
RECURSIVE scanDirectoryRecursive(_, _, _, _, _)
scanDirectoryRecursive(dirPath, tree, extensions, recursive, denied) ==
    LET below   == {p \in tree : IsUnder(p, dirPath)}
        here    == {p \in below : /\ Len(p) = Len(dirPath) + 2
                                  /\ ~Refused(denied, "stat", p)
                                  /\ shouldIncludeFile(p, extensions)}
        subdirs == {p[Len(dirPath) + 1] : p \in {q \in below : Len(q) > Len(dirPath) + 2}}
        entered == {d \in subdirs : /\ ~Refused(denied, "stat", Append(dirPath, d))
                                    /\ recursive /\ ~shouldSkipDirectory(d)}
    IN  IF Refused(denied, "readdir", dirPath) THEN {}
        ELSE here \cup UNION {scanDirectoryRecursive(Append(dirPath, d), tree, extensions,
                                                     recursive, denied) : d \in entered}

\* The paths console.warn is called for while dirPath is read.
RECURSIVE scanWarnings(_, _, _, _)
scanWarnings(dirPath, tree, recursive, denied) ==
    LET below   == {p \in tree : IsUnder(p, dirPath)}
        entries == {p \in below : Len(p) = Len(dirPath) + 2}
        subdirs == {p[Len(dirPath) + 1] : p \in {q \in below : Len(q) > Len(dirPath) + 2}}
        entered == {d \in subdirs : /\ ~Refused(denied, "stat", Append(dirPath, d))
                                    /\ recursive /\ ~shouldSkipDirectory(d)}
    IN  IF Refused(denied, "readdir", dirPath) THEN {dirPath}
        ELSE {p \in entries : Refused(denied, "stat", p)}
             \cup {Append(dirPath, d) : d \in {x \in subdirs :
                                                 Refused(denied, "stat", Append(dirPath, x))}}
             \cup UNION {scanWarnings(Append(dirPath, d), tree, recursive, denied) :
                            d \in entered}

\* The order of the UTF-16 code units of the first characters of the path
\* parts: "." < "/" < "A" < "b" < "s" < "t".
PartRank(part) ==
    CASE part = ".JAVA" -> 1 [] part = ".cache" -> 2 [] part = ".java" -> 3 [] part = ".txt" -> 4
      [] part = "/" -> 5 [] part = "A" -> 6 [] part = "b" -> 7 [] part = "src" -> 8
      [] part = "target" -> 9 [] OTHER -> 0

\* The parts of the resolved path string: directory names and base name
\* joined by separators, then the extension.
RECURSIVE PathString(_)
PathString(p) ==
    IF Len(p) <= 2 THEN p ELSE <<Head(p), "/">> \o PathString(Tail(p))

RECURSIVE StringLess(_, _)
StringLess(a, b) ==
    IF a = <<>> THEN b # <<>>
    ELSE IF b = <<>> THEN FALSE
    ELSE IF Head(a) = Head(b) THEN StringLess(Tail(a), Tail(b))
    ELSE PartRank(Head(a)) < PartRank(Head(b))

\* files.sort()
RECURSIVE SortFiles(_)
SortFiles(S) ==
    IF S = {} THEN <<>>
    ELSE LET least == CHOOSE p \in S :
                        \A q \in S \ {p} : StringLess(PathString(p), PathString(q))
         IN  <<least>> \o SortFiles(S \ {least})

\* statSync(targetPath) inside the try block, whose catch rethrows; then the
\* recursive scan and the sort.
scanDirectory(tree, extensions, recursive, denied) ==
    IF Refused(denied, "stat", <<>>)
    THEN [called |-> TRUE, threw |-> TRUE, files |-> <<>>, warnings |-> {}]
    ELSE [called |-> TRUE, threw |-> FALSE,
          files |-> SortFiles(scanDirectoryRecursive(<<>>, tree, extensions, recursive, denied)),
          warnings |-> scanWarnings(<<>>, tree, recursive, denied)]

ScanDirectoryCall ==
    /\ fsExtensions # {}
    /\ ~fsResult.called
    /\ fsResult' = scanDirectory(fsTree, fsExtensions, fsRecursive, fsDenied)
    /\ UNCHANGED <<fsTree, fsExtensions, fsRecursive, fsDenied,
                   archVars, cloudVars, owaspVars, cmdVars, scanVars, saveVars, packVars, scoreVars, handlerVars, renderVars>>

InitFs ==
    /\ fsTree \in Trees
    /\ fsExtensions \in {Extensions(a) : a \in ExtensionArgs}
    /\ fsRecursive \in BOOLEAN
    /\ fsDenied \in Denials
    /\ fsResult = NoScan
    /\ ArchIdle /\ CloudIdle /\ OwaspIdle /\ CmdIdle /\ ScanIdle /\ SaveIdle /\ PackIdle /\ ScoreIdle /\ HandlerIdle /\ RenderIdle

NextFs == ScanDirectoryCall

SpecFs == InitFs /\ [][NextFs]_vars

\* The directory names on the way from the target to a file.
DirsOf(p) == {p[k] : k \in 1..(Len(p) - 2)}

\* C15: whatever the configured extensions, no file returned by
\* scanDirectory lies under a directory below the target whose name is in
\* the skip set.
C15_SkippedDirectoriesExcluded ==
    fsResult.called =>
        \A i \in 1..Len(fsResult.files) : DirsOf(fsResult.files[i]) \cap skipDirs = {}

\* A recursive scan of a tree with a .java file under src/target and one
\* under src has returned the second and not the first.
C15_Witness ==
    /\ fsResult.called
    /\ fsRecursive
    /\ fsTree = {<<"src", "target", "A", ".java">>, <<"src", "A", ".java">>}
    /\ fsResult.files = <<<<"src", "A", ".java">>>>

(***************************************************************************)
(* The part of a response that is parsed.                                  *)
(***************************************************************************)
\* The balanced JSON objects occurring in a text, as pairs of positions.
ObjectsIn(s) ==
    {ij \in (1..Len(s)) \X (1..Len(s)) :
        /\ ij[1] < ij[2]
        /\ s[ij[1]] = "{"
        /\ IsJsonValue(SubSeq(s, ij[1], ij[2]))}

\* The first of them: the one that starts first.
FirstObject(s) ==
    LET first == CHOOSE ij \in ObjectsIn(s) : \A kl \in ObjectsIn(s) : ij[1] <= kl[1]
    IN  SubSeq(s, first[1], first[2])

\* C17: from a response that contains a balanced JSON object, whatever text
\* precedes and follows it, the first such object is what is extracted and
\* parsed.
C17_FirstBalancedObjectParsed ==
    (aResult # NoResult /\ aOutcome.kind = "response" /\ ~aOutcome.isNull
        /\ ObjectsIn(aOutcome.content) # {})
    => aResult.value = JsonParse(FirstObject(aOutcome.content))

(***************************************************************************)
(* The order of the steps of runDependencyCheck.                           *)
(***************************************************************************)
Positions(trace, step) == {i \in 1..Len(trace) : trace[i] = step}

C22_ScannerOrder ==
    sResult.called =>
        /\ sEnv.project = "maven" =>
              Positions(sTrace, "cli") = {} /\ Positions(sTrace, "docker") = {}
        /\ (sEnv.project # "maven" /\ sEnv.mkdir) =>
              /\ Positions(sTrace, "mvn") = {}
              /\ sTrace[1] = "cli"
              /\ Cardinality(Positions(sTrace, "docker")) <= 1
              /\ Positions(sTrace, "docker") # {}
                    <=> ~(sEnv.scanner /\ sEnv.first.kind = "ok")

\* A Gradle project whose CLI scan left an unparseable report has gone on to
\* the Docker scanner.
C22_Witness ==
    /\ sResult.called
    /\ sEnv.project = "gradle" /\ sEnv.mkdir /\ sEnv.scanner /\ sEnv.docker
    /\ sEnv.first.kind = "badxml"
    /\ sTrace = <<"cli", "parse reportDir", "docker", "parse reportDir">>

(***************************************************************************)
(* packageCodebase and manualPackaging.  pkTemp is the set of temporary    *)
(* files present in the working directory.  An exclude pattern is a string *)
(* (a sequence of characters) or, as the option parser delivers a numeric  *)
(* argument, a number.  The project is a directory that can be listed or   *)
(* not, with entries that can be stat'ed and read or not.                  *)
(***************************************************************************)
ConfigFile == "repomix-temp.config.json"
OutputFile == "temp-packaged.txt"

StringPattern(t) == [isString |-> TRUE, text |-> t]
NumberPattern    == [isString |-> FALSE, text |-> <<>>]

ExcludePatternArgs ==
    {<<StringPattern(<<"a">>), StringPattern(<<"*", ".", "a">>)>>,
     <<StringPattern(<<"(", "a">>)>>,
     <<StringPattern(<<"+", "a">>)>>,
     <<NumberPattern>>,
     <<>>}

\* pattern.replace(/\*/g, '.*').replace(/\./g, '\\.')
RECURSIVE ReplaceStars(_)
ReplaceStars(t) ==
    IF t = <<>> THEN <<>>
    ELSE (IF Head(t) = "*" THEN <<".", "*">> ELSE <<Head(t)>>) \o ReplaceStars(Tail(t))

RECURSIVE EscapeDots(_)
EscapeDots(t) ==
    IF t = <<>> THEN <<>>
    ELSE (IF Head(t) = "." THEN <<"\\", ".">> ELSE <<Head(t)>>) \o EscapeDots(Tail(t))

\* new RegExp(source) accepts a source of these characters when its groups
\* are closed and no quantifier stands where there is nothing to repeat.
ValidRegExp(src) ==
    /\ Cardinality({i \in 1..Len(src) : src[i] = "("})
          = Cardinality({i \in 1..Len(src) : src[i] = ")"})
    /\ \A i \in 1..Len(src) :
          src[i] \in {"*", "+"} => (i > 1 /\ src[i - 1] \notin {"(", "*", "+"})

\* The construction of excludeRegexes raises: a pattern that is not a string
\* has no replace method, and RegExp rejects an invalid source.
ExcludeRegexesThrow(patterns) ==
    \E i \in 1..Len(patterns) :
        \/ ~patterns[i].isString
        \/ ~ValidRegExp(EscapeDots(ReplaceStars(patterns[i].text)))

PackEntries == [stat : BOOLEAN, readable : BOOLEAN]
PackTrees ==
    {[listable |-> FALSE, entries |-> <<>>], [listable |-> TRUE, entries |-> <<>>]}
    \cup {[listable |-> TRUE, entries |-> <<f>>] : f \in PackEntries}
    \cup {[listable |-> TRUE, entries |-> <<[stat |-> TRUE, readable |-> TRUE],
                                            [stat |-> TRUE, readable |-> FALSE]>>]}

\* The text of the manual packager: one part for each file found, its
\* content or the placeholder for a file that cannot be read.
RECURSIVE ManualBody(_)
ManualBody(entries) ==
    IF entries = <<>> THEN <<>>
    ELSE (IF ~Head(entries).stat THEN <<>>
          ELSE IF Head(entries).readable THEN <<"content">>
          ELSE <<"[Binary or unreadable file]">>)
         \o ManualBody(Tail(entries))

manualPackaging(patterns, tree) ==
    IF ExcludeRegexesThrow(patterns)
    THEN [called |-> TRUE, threw |-> TRUE, source |-> "manual", body |-> <<>>]
    ELSE [called |-> TRUE, threw |-> FALSE, source |-> "manual",
          body |-> IF tree.listable THEN ManualBody(tree.entries) ELSE <<>>]

packRest == <<pkPatterns, pkTree, archVars, cloudVars, owaspVars, cmdVars,
              scanVars, saveVars, fsVars, scoreVars, handlerVars, renderVars>>

\* fs.writeFileSync(tempConfigPath, ...)
PackWriteConfig ==
    /\ pkPc = "start"
    /\ \E ok \in BOOLEAN :
          IF ok THEN pkTemp' = pkTemp \cup {ConfigFile} /\ pkPc' = "exec"
          ELSE pkTemp' = pkTemp /\ pkPc' = "manual"
    /\ UNCHANGED <<pkResult, packRest>>

\* execSync(npx repomix ...): the command succeeds or fails, and has or has
\* not written its output file.
PackRunRepomix ==
    /\ pkPc = "exec"
    /\ \E ok \in BOOLEAN, out \in BOOLEAN :
          /\ pkTemp' = IF out THEN pkTemp \cup {OutputFile} ELSE pkTemp
          /\ pkPc' = IF ok THEN "read" ELSE "manual"
    /\ UNCHANGED <<pkResult, packRest>>

\* fs.readFileSync(outputFilePath)
PackReadOutput ==
    /\ pkPc = "read"
    /\ \E ok \in BOOLEAN :
          pkPc' = IF ok /\ OutputFile \in pkTemp THEN "unlinkConfig" ELSE "manual"
    /\ UNCHANGED <<pkTemp, pkResult, packRest>>

\* fs.unlinkSync(tempConfigPath)
PackUnlinkConfig ==
    /\ pkPc = "unlinkConfig"
    /\ \E ok \in BOOLEAN :
          IF ok THEN pkTemp' = pkTemp \ {ConfigFile} /\ pkPc' = "unlinkOutput"
          ELSE pkTemp' = pkTemp /\ pkPc' = "manual"
    /\ UNCHANGED <<pkResult, packRest>>

\* fs.unlinkSync(outputFilePath); return packagedContent
PackUnlinkOutput ==
    /\ pkPc = "unlinkOutput"
    /\ \E ok \in BOOLEAN :
          IF ok
          THEN /\ pkTemp' = pkTemp \ {OutputFile}
               /\ pkPc' = "returned"
               /\ pkResult' = [called |-> TRUE, threw |-> FALSE, source |-> "repomix",
                               body |-> <<"content">>]
          ELSE pkTemp' = pkTemp /\ pkPc' = "manual" /\ pkResult' = pkResult
    /\ UNCHANGED packRest

\* catch: return await manualPackaging(projectPath, excludePatterns)
PackManual ==
    /\ pkPc = "manual"
    /\ pkResult' = manualPackaging(pkPatterns, pkTree)
    /\ pkPc' = "returned"
    /\ UNCHANGED <<pkTemp, packRest>>

InitPack ==
    /\ pkPc = "start"
    /\ pkPatterns \in ExcludePatternArgs
    /\ pkTree \in PackTrees
    /\ pkTemp = {}
    /\ pkResult = NoPackResult
    /\ ArchIdle /\ CloudIdle /\ OwaspIdle /\ CmdIdle /\ ScanIdle /\ SaveIdle /\ FsIdle /\ ScoreIdle /\ HandlerIdle /\ RenderIdle

NextPack ==
    \/ PackWriteConfig
    \/ PackRunRepomix
    \/ PackReadOutput
    \/ PackUnlinkConfig
    \/ PackUnlinkOutput
    \/ PackManual

SpecPack == InitPack /\ [][NextPack]_vars

\* C23: packageCodebase never throws: whichever step of the packaging
\* utility path fails, the manual packager's text is returned.
C23_PackageNeverThrows ==
    pkResult.called => ~pkResult.threw

\* C29: after packageCodebase has returned, neither temporary file is left
\* in the working directory.
C29_NoTemporaryFilesLeft ==
    pkResult.called => pkTemp = {}

(***************************************************************************)
(* The kind of value analyzeArchitecture hands to the architect handler.   *)
(***************************************************************************)
\* C26: analyzeArchitecture returns a non-null object for every LLM
\* response, also for one that is valid JSON but not an object, so the
\* handler's field reads on the result never raise.
C26_ReturnsNonNullObject ==
    (aFn = "analyzeArchitecture" /\ aResult # NoResult) =>
        /\ ~aResult.threw
        /\ aResult.value.kind \in {"object", "fallback"}

(***************************************************************************)
(* calculateStaticScore on any list of issues and any number of strengths. *)
(***************************************************************************)
MaxIssues == 4
MaxStrengths == 7

Severities == {"High", "Medium", "Low"}

RECURSIVE SeveritySeqs(_)
SeveritySeqs(n) ==
    IF n = 0 THEN {<<>>}
    ELSE LET shorter == SeveritySeqs(n - 1)
         IN  shorter \cup {Append(s, sv) : s \in {q \in shorter : Len(q) = n - 1},
                                           sv \in Severities}

StaticIssue(sv) == Issue("Static", sv, "description", "recommendation")
IssuesOf(svs)   == [i \in 1..Len(svs) |-> StaticIssue(svs[i])]
Strengths(n)    == [i \in 1..n |-> "strength"]

\* const score = this.calculateStaticScore(issues, strengths)
CalculateStaticScoreCall ==
    /\ ~scResult.called
    /\ scResult' = [called |-> TRUE, score |-> calculateStaticScore(scIssues, scStrengths)]
    /\ UNCHANGED <<scIssues, scStrengths, archVars, cloudVars, owaspVars, cmdVars,
                   scanVars, saveVars, fsVars, packVars, handlerVars, renderVars>>

InitScore ==
    /\ scIssues \in {IssuesOf(svs) : svs \in SeveritySeqs(MaxIssues)}
    /\ scStrengths \in {Strengths(n) : n \in 0..MaxStrengths}
    /\ scResult = NoStaticScore
    /\ ArchIdle /\ CloudIdle /\ OwaspIdle /\ CmdIdle /\ ScanIdle /\ SaveIdle /\ FsIdle /\ PackIdle /\ HandlerIdle /\ RenderIdle

NextScore == CalculateStaticScoreCall

SpecScore == InitScore /\ [][NextScore]_vars

CountOf(issues, sv) == Cardinality({i \in 1..Len(issues) : issues[i].severity = sv})

\* clamp(7 - 2*H - 1*M - 0.5*L + min(0.5*S, 3), 0, 10), in twentieths.
ClaimedScore(issues, strengths) ==
    LET raw == 140 - 40 * CountOf(issues, "High") - 20 * CountOf(issues, "Medium")
                   - 10 * CountOf(issues, "Low")
                   + (IF 10 * Len(strengths) <= 60 THEN 10 * Len(strengths) ELSE 60)
    IN  IF raw < 0 THEN 0 ELSE IF raw > 200 THEN 200 ELSE raw

\* C28: the static score is clamp(7 - 2H - M - 0.5L + min(0.5S, 3), 0, 10);
\* one more issue never raises it, one more strength never lowers it, and a
\* strength beyond the sixth does not change it.
C28_StaticScoreFormula ==
    scResult.called =>
        /\ scResult.score = ClaimedScore(scIssues, scStrengths)
        /\ \A sv \in Severities :
              calculateStaticScore(Append(scIssues, StaticIssue(sv)), scStrengths)
                  <= scResult.score
        /\ calculateStaticScore(scIssues, Append(scStrengths, "strength")) >= scResult.score
        /\ Len(scStrengths) >= 6 =>
              calculateStaticScore(scIssues, Append(scStrengths, "strength")) = scResult.score

\* Four High issues and seven strengths: both the lower clamp and the cap
\* on the strength bonus act (7 - 8 + 3 = 2).
C28_Witness ==
    /\ scResult.called
    /\ CountOf(scIssues, "High") = 4
    /\ Len(scStrengths) = 7
    /\ scResult.score = 40

(***************************************************************************)
(* The handlers step by step: the capture of console.log, the validation   *)
(* of the arguments, and the effects of a run (LLM requests, subprocesses, *)
(* files written).  stdout records every console.log call with whether the *)
(* capturing wrapper was installed when it was made.                       *)
(***************************************************************************)
MaxLogs == 2

Messages == {"a", "b"}
CapturingCommands == {"cve", "cloud-readiness"}

\* What the work of a command can do: analyzeProject runs the scanner and
\* the LLM; architect packages (a subprocess and two temporary files) and
\* asks the LLM; cloud-readiness asks the LLM.
EffectsOf(c) ==
    IF c = "cve" THEN {"subprocess", "llm"}
    ELSE IF c = "architect" THEN {"subprocess", "tempfile", "llm"}
    ELSE {"llm"}

\* A validation that looks at the API key first.
ValidationErrorKeyFirst(c, path, key) ==
    IF c # "cloud-readiness" /\ ~key THEN "key"
    ELSE IF ~path THEN "path"
    ELSE "none"

\* if (!fs.existsSync(argv.path)) throw ...; if (!argv.llmApiKey) throw ...
ValidationError(c, path, key) ==
    IF ~path THEN "path"
    ELSE IF c # "cloud-readiness" /\ ~key THEN "key"
    ELSE "none"

\* A call of console.log: the wrapper appends the message to terminalOutput
\* and passes it to the original function.
ConsoleLog(m) ==
    /\ stdout' = Append(stdout, [text |-> m, wrapped |-> consoleLog = "wrapper"])
    /\ terminalOutput' = IF consoleLog = "wrapper" THEN Append(terminalOutput, m)
                         ELSE terminalOutput

handlerArgs  == <<hCmd, hPathExists, hHasKey>>
handlerOther == <<archVars, cloudVars, owaspVars, cmdVars, scanVars, saveVars, fsVars,
                  packVars, scoreVars, renderVars>>

\* const originalLog = console.log; console.log = (...args) => { ... }
HandlerEnter ==
    /\ hPc = "entry"
    /\ consoleLog' = IF hCmd \in CapturingCommands THEN "wrapper" ELSE consoleLog
    /\ hPc' = "validate"
    /\ UNCHANGED <<handlerArgs, hError, hEffects, terminalOutput, stdout, handlerOther>>

HandlerValidate ==
    /\ hPc = "validate"
    /\ hError' = ValidationError(hCmd, hPathExists, hHasKey)
    /\ hPc' = IF hError' = "none" THEN "work" ELSE "catch"
    /\ UNCHANGED <<handlerArgs, hEffects, consoleLog, terminalOutput, stdout, handlerOther>>

\* A console.log call of the handler or of a function it calls.
HandlerLog ==
    /\ hPc = "work" /\ Len(stdout) < MaxLogs
    /\ \E m \in Messages : ConsoleLog(m)
    /\ UNCHANGED <<handlerArgs, hPc, hError, hEffects, consoleLog, handlerOther>>

\* A step of the work that starts a subprocess, sends an LLM request or
\* writes a temporary file.
HandlerEffect ==
    /\ hPc = "work"
    /\ \E ef \in EffectsOf(hCmd) \ hEffects : hEffects' = hEffects \cup {ef}
    /\ UNCHANGED <<handlerArgs, hPc, hError, consoleLog, terminalOutput, stdout, handlerOther>>

\* A step of the work throws.
HandlerFail ==
    /\ hPc = "work"
    /\ hError' = "other"
    /\ hPc' = "catch"
    /\ UNCHANGED <<handlerArgs, hEffects, consoleLog, terminalOutput, stdout, handlerOther>>

\* console.log = originalLog, after the display and before the save.
HandlerRestore ==
    /\ hPc = "work"
    /\ consoleLog' = IF hCmd \in CapturingCommands THEN "original" ELSE consoleLog
    /\ hPc' = "save"
    /\ UNCHANGED <<handlerArgs, hError, hEffects, terminalOutput, stdout, handlerOther>>

\* saveAnalysisResults / fs.writeFileSync(argv.output, ...), which may throw.
HandlerSave ==
    /\ hPc = "save"
    /\ \E ok \in BOOLEAN :
          IF ok
          THEN hEffects' = hEffects \cup {"output"} /\ hPc' = "saved" /\ hError' = hError
          ELSE hEffects' = hEffects /\ hPc' = "catch" /\ hError' = "other"
    /\ UNCHANGED <<handlerArgs, consoleLog, terminalOutput, stdout, handlerOther>>

\* console.log of the saved file names; the handler returns.
HandlerLogSaved ==
    /\ hPc = "saved"
    /\ ConsoleLog("saved")
    /\ hPc' = "returned"
    /\ UNCHANGED <<handlerArgs, hError, hEffects, consoleLog, handlerOther>>

\* A catch block that rethrows without touching console.log.
HandlerCatchNoRestore ==
    /\ hPc = "catch"
    /\ hPc' = "threw"
    /\ UNCHANGED <<handlerArgs, hError, hEffects, consoleLog, terminalOutput, stdout,
                   handlerOther>>

\* catch (error) { console.log = originalLog; spinner.fail(...); throw error }
HandlerCatch ==
    /\ hPc = "catch"
    /\ consoleLog' = IF hCmd \in CapturingCommands THEN "original" ELSE consoleLog
    /\ hPc' = "threw"
    /\ UNCHANGED <<handlerArgs, hError, hEffects, terminalOutput, stdout, handlerOther>>

InitHandler ==
    /\ hCmd \in Commands
    /\ hPathExists \in BOOLEAN
    /\ hHasKey \in BOOLEAN
    /\ hPc = "entry" /\ hError = "none" /\ hEffects = {}
    /\ consoleLog = "original" /\ terminalOutput = <<>> /\ stdout = <<>>
    /\ ArchIdle /\ CloudIdle /\ OwaspIdle /\ CmdIdle /\ ScanIdle /\ SaveIdle /\ FsIdle /\ PackIdle /\ ScoreIdle /\ RenderIdle

NextHandler ==
    \/ HandlerEnter
    \/ HandlerValidate
    \/ HandlerLog
    \/ HandlerEffect
    \/ HandlerFail
    \/ HandlerRestore
    \/ HandlerSave
    \/ HandlerLogSaved
    \/ HandlerCatch

SpecHandler == InitHandler /\ [][NextHandler]_vars

WrappedCalls == SelectSeq(stdout, LAMBDA r : r.wrapped)

\* C25: in cve and cloud-readiness the wrapper is installed from the start
\* of the handler, every message logged while it is installed is in
\* terminalOutput in logging order, and once the handler has returned or
\* thrown console.log is the original function again.
C25_CaptureAlwaysUndone ==
    hCmd \in CapturingCommands =>
        /\ hPc \in {"validate", "work"} => consoleLog = "wrapper"
        /\ terminalOutput = [i \in 1..Len(WrappedCalls) |-> WrappedCalls[i].text]
        /\ hPc \in {"returned", "threw"} => consoleLog = "original"

\* A cve run threw in the middle of its work after two captured messages.
C25_Witness ==
    /\ hCmd = "cve" /\ hPc = "threw" /\ hError = "other"
    /\ terminalOutput = <<"a", "b">>
    /\ "output" \notin hEffects
    /\ consoleLog = "original"

\* C27: when cve or architect aborts on a missing path or a missing API
\* key, no LLM request was sent, no subprocess started and no file written;
\* the path is checked before the key.
C27_AbortBeforeAnyEffect ==
    (hCmd \in {"cve", "architect"} /\ hError \in {"path", "key"}) =>
        /\ hEffects = {}
        /\ hError = "key" => hPathExists
        /\ ~hPathExists => hError = "path"

\* architect was given neither an existing path nor a key and threw.
C27_Witness ==
    /\ hCmd = "architect" /\ ~hPathExists /\ ~hHasKey
    /\ hPc = "threw" /\ hError = "path"

(***************************************************************************)
(* The Raw Terminal Output section of generateMarkdownReport.  A terminal  *)
(* output is a sequence of characters: "e" is the escape character, "0" a  *)
(* digit, "x" any other character.  The section is the text between the   *)
(* two code fences, without its final line break.                          *)
(***************************************************************************)
MaxOut == 4

OutChars == {"e", "[", "0", ";", "m", "x"}

RECURSIVE OutputsUpTo(_)
OutputsUpTo(n) ==
    IF n = 0 THEN {<<>>}
    ELSE LET shorter == OutputsUpTo(n - 1)
         IN  shorter \cup {Append(s, c) : s \in {q \in shorter : Len(q) = n - 1},
                                          c \in OutChars}

\* The length of the match of /\x1b\[[0-9;]*m/ at position i of s, 0 when
\* there is none.
RECURSIVE ParamsEnd(_, _)
ParamsEnd(s, j) ==
    IF j <= Len(s) /\ s[j] \in {"0", ";"} THEN ParamsEnd(s, j + 1) ELSE j

AnsiMatchAt(s, i) ==
    IF i + 1 <= Len(s) /\ s[i] = "e" /\ s[i + 1] = "["
    THEN LET j == ParamsEnd(s, i + 2)
         IN  IF j <= Len(s) /\ s[j] = "m" THEN j - i + 1 ELSE 0
    ELSE 0

\* text.replace(/\x1b\[[0-9;]*m/g, ''): one pass from left to right.
RECURSIVE StripFrom(_, _)
StripFrom(s, i) ==
    IF i > Len(s) THEN <<>>
    ELSE IF AnsiMatchAt(s, i) > 0 THEN StripFrom(s, i + AnsiMatchAt(s, i))
    ELSE <<s[i]>> \o StripFrom(s, i + 1)

stripAnsiColors(text) == StripFrom(text, 1)

\* ${terminalOutput.replace(/\x1b\[[0-9;]*m/g, '')} // Remove ANSI color codes
RawTerminalOutputSection(terminalOut) ==
    stripAnsiColors(terminalOut) \o <<" // Remove ANSI color codes">>

RenderRawTerminalOutput ==
    /\ ~rSection.rendered
    /\ rSection' = [rendered |-> TRUE, text |-> RawTerminalOutputSection(rOutput)]
    /\ UNCHANGED <<rOutput, archVars, cloudVars, owaspVars, cmdVars, scanVars, saveVars,
                   fsVars, packVars, scoreVars, handlerVars>>

InitRender ==
    /\ rOutput \in OutputsUpTo(MaxOut)
    /\ rSection = NoSection
    /\ ArchIdle /\ CloudIdle /\ OwaspIdle /\ CmdIdle /\ ScanIdle /\ SaveIdle /\ FsIdle /\ PackIdle /\ ScoreIdle /\ HandlerIdle

NextRender == RenderRawTerminalOutput

SpecRender == InitRender /\ [][NextRender]_vars

ContainsAnsi(s) == \E i \in 1..Len(s) : AnsiMatchAt(s, i) > 0

\* C24: the Raw Terminal Output section is exactly the terminal output with
\* its ANSI colour escape sequences removed: nothing else is in the section
\* and no escape sequence remains in it.
C24_RawOutputExact ==
    rSection.rendered =>
        /\ rSection.text = stripAnsiColors(rOutput)
        /\ ~ContainsAnsi(rSection.text)

(***************************************************************************)
(* The list scanDirectory returns, and what it does about a path that      *)
(* cannot be accessed.                                                     *)
(***************************************************************************)
\* The part of the tree at or below a path.
AtOrBelow(tree, path) ==
    {p \in tree : p = path \/ (Len(p) > Len(path) /\ SubSeq(p, 1, Len(path)) = path)}

\* C30: scanDirectory returns a list sorted in ascending order without
\* duplicates whose files all have a configured extension (compared without
\* regard to case); with recursive = false all of them are directly inside
\* the target; an inaccessible entry below the target is skipped with a
\* warning and the other entries are scanned as usual; an inaccessible
\* target raises an error.
C30_ScanDirectoryResult ==
    fsResult.called =>
        /\ fsDenied.path = <<>> /\ fsDenied.op # "none" => fsResult.threw
        /\ ~fsResult.threw =>
              /\ \A i \in 1..(Len(fsResult.files) - 1) :
                    StringLess(PathString(fsResult.files[i]), PathString(fsResult.files[i + 1]))
              /\ \A i \in 1..Len(fsResult.files) :
                    /\ ExtToLowerCase(fsResult.files[i][Len(fsResult.files[i])]) \in fsExtensions
                    /\ ~fsRecursive => Len(fsResult.files[i]) = 2
        /\ fsDenied.path # <<>> =>
              /\ ~fsResult.threw
              /\ fsResult.warnings \subseteq {fsDenied.path}
              /\ {fsResult.files[i] : i \in 1..Len(fsResult.files)}
                    = scanDirectoryRecursive(<<>>, fsTree \ AtOrBelow(fsTree, fsDenied.path),
                                             fsExtensions, fsRecursive, NoDenial)

====
